---- MODULE Spec2Model ----
(***************************************************************************)
(* Model of the two FreshEats single-page applications:                    *)
(*   - the customer app  (src/frontend/src/App.jsx), app = "client"        *)
(*   - the admin panel   (src/admin/src/App.jsx),    app = "admin"         *)
(* Each behaviour runs one app instance.  React state is held in the       *)
(* variables named after the useState hooks; `view` is the state captured  *)
(* by the closures of the last render (what event handlers and effect      *)
(* dependency arrays see).  The Firebase auth service and the Firestore    *)
(* listener are the environment: they deliver callbacks to the app.        *)
(***************************************************************************)
EXTENDS Integers, Sequences, FiniteSets, TLC

VARIABLES
    app,            \* which application this instance is
    cfg,            \* firebaseConfig: "missing" | "invalid" | "fallback" | "real"
    token,          \* initialAuthToken is present
    phase,          \* "created" | "mounted" | "unmounted"
    db,             \* the Firestore handle exists (firebaseRef.current.db / db)
    items,          \* stores (client) / products (admin)
    delivered,      \* the snapshot the listener delivered last, Absent before
    loading,        \* isLoading (client) / loading (admin)
    error,          \* error state, None when null
    errorSeen,      \* history: the error state has been set during this run
    authReady,      \* authReady (client) / isAuthReady (admin)
    userId,         \* userId, None when null
    newProduct,     \* admin: the draft
    isSubmitting,   \* admin: the submitting flag
    view,           \* state captured by the last render
    authUser,       \* auth service: the signed-in user, None when signed out
    authListener,   \* the onAuthStateChanged observer is registered
    authQ,          \* auth service: identity events not yet delivered
    signInPending,  \* sign-in calls in flight
    signIns,        \* sign-in calls made so far (token or anonymous)
    resumePending,  \* admin: callbacks whose sign-in fulfilled, not yet resumed
    sub,            \* collection listener: "closed" | "open" | "failed"
    opened,         \* the last step opened a collection subscription
    writesInFlight  \* create-document calls issued and not yet settled

vars == <<app, cfg, token, phase, db, items, delivered, loading, error,
          errorSeen, authReady, userId, newProduct, isSubmitting, view, authUser,
          authListener, authQ, signInPending, signIns, resumePending, sub,
          opened, writesInFlight>>

(***************************************************************************)
(* Bounds of the model.                                                    *)
(***************************************************************************)
MaxDocs == 2        \* documents in one snapshot
MaxAuthEvents == 2  \* identity events waiting for delivery or being handled
MaxWrites == 2      \* create-document calls in flight
MaxSignIns == 2     \* sign-in calls over one run

None == "none"

\* An optional field of a document: {} when the field is missing, {v} otherwise.
Absent == {}
Some(v) == {v}
Get(o) == CHOOSE v \in o : TRUE

(***************************************************************************)
(* Data.                                                                   *)
(***************************************************************************)
\* Names are words over a two-letter alphabet, 1 before 2.
Names == {<<>>, <<1>>, <<1, 2>>, <<2>>}
Millis == {1, 2}
Uids == {"u1"}
MockUid == "mock-uuid"

DocIds == 1..MaxDocs

\* Store documents carry a name; product documents a name and a createdAt.
StoreDocs == [id : DocIds, name : {Absent} \cup {Some(n) : n \in Names},
              createdAt : {Absent}]
ProductDocs == [id : DocIds, name : {Some(<<1>>)},
                createdAt : {Absent} \cup {Some(m) : m \in Millis}]

RECURSIVE ByDocId(_, _)
\* A query without orderBy yields its documents in ascending order of
\* document id, and ids are unique: the sequences over `docs` of at most
\* MaxDocs documents whose ids ascend, starting from id `lo`.
ByDocId(docs, lo) ==
    {<<>>} \cup
    UNION {{<<d>> \o t : t \in ByDocId(docs, d.id + 1)} :
              d \in {x \in docs : x.id >= lo}}

\* The snapshots the collection service can deliver.
Snapshots(a) ==
    ByDocId(IF a = "client" THEN StoreDocs ELSE ProductDocs, 1)

\* One document of each collection, for the runs that do not vary the
\* contents of the collection: the collection is empty or holds SampleDoc.
SampleDoc(a) ==
    IF a = "client"
    THEN [id |-> 1, name |-> Some(<<1>>), createdAt |-> Absent]
    ELSE [id |-> 1, name |-> Some(<<1>>), createdAt |-> Some(1)]

SampleSnapshots(a) == {<<>>, <<SampleDoc(a)>>}

(***************************************************************************)
(* Sorting.  Array.prototype.sort is stable: it is modelled as a stable    *)
(* insertion sort driven by the comparator of each app.                    *)
(***************************************************************************)
RECURSIVE LocaleCompare(_, _)
\* a.localeCompare(b) on words: negative, zero or positive.
LocaleCompare(a, b) ==
    IF a = <<>> /\ b = <<>> THEN 0
    ELSE IF a = <<>> THEN -1
    ELSE IF b = <<>> THEN 1
    ELSE IF Head(a) < Head(b) THEN -1
    ELSE IF Head(a) > Head(b) THEN 1
    ELSE LocaleCompare(Tail(a), Tail(b))

\* (x.name || "")
NameOrEmpty(d) == IF d.name = Absent THEN <<>> ELSE Get(d.name)

\* (x.createdAt?.toMillis() || 0)
MillisOrZero(d) == IF d.createdAt = Absent THEN 0 ELSE Get(d.createdAt)

\* Faulty variant of the comparator: its arguments are swapped.
Compare_Swapped(a, x, y) ==
    IF a = "client"
    THEN LocaleCompare(NameOrEmpty(y), NameOrEmpty(x))
    ELSE MillisOrZero(x) - MillisOrZero(y)

\* The comparator handed to sort(): stores ascending by name, products
\* descending by creation time.
Compare(a, x, y) ==
    IF a = "client"
    THEN LocaleCompare(NameOrEmpty(x), NameOrEmpty(y))
    ELSE MillisOrZero(y) - MillisOrZero(x)

RECURSIVE Insert(_, _, _)
Insert(a, x, s) ==
    IF s = <<>> THEN <<x>>
    ELSE IF Compare(a, Head(s), x) <= 0
         THEN <<Head(s)>> \o Insert(a, x, Tail(s))
         ELSE <<x>> \o s

RECURSIVE Sort(_, _)
Sort(a, s) ==
    IF s = <<>> THEN <<>>
    ELSE Insert(a, s[Len(s)], Sort(a, SubSeq(s, 1, Len(s) - 1)))

(***************************************************************************)
(* The admin draft.                                                        *)
(***************************************************************************)
DefaultProduct ==
    [name |-> "", description |-> "", price |-> 0, category |-> "Main Dish"]

\* What the form's inputs can deliver (e.target.value), per field.
NameInputs == {"", "Roll"}
DescriptionInputs == {"", "Spicy"}
PriceInputs == {"", "-1", "0", "5"}
categories == {"Main Dish"}

\* parseFloat(value) || 0 on the strings a number input can hold.
ParsePrice(value) ==
    CASE value = "-1" -> -1
      [] value = "5" -> 5
      [] OTHER -> 0

Drafts == [name : NameInputs, description : DescriptionInputs,
           price : {ParsePrice(v) : v \in PriceInputs}, category : categories]

(***************************************************************************)
(* Rendering.                                                              *)
(***************************************************************************)
\* The state a render captures for its handlers and dependency arrays.
Captured ==
    [authReady |-> authReady, userId |-> userId, error |-> error,
     isSubmitting |-> isSubmitting, newProduct |-> newProduct]

\* Dependency array of the collection-listener effect.
Deps(v) ==
    IF app = "client" THEN <<v.authReady>>
    ELSE <<v.authReady, v.userId, v.error>>

\* Faulty variant of the effect guard: the readiness test is dropped.
EffectOpens_NoReadyTest(v, hasDb) ==
    IF app = "client" THEN hasDb
    ELSE hasDb /\ v.error = None

\* The effect opens the subscription unless its guard returns early.
EffectOpens(v, hasDb) ==
    IF app = "client" THEN v.authReady /\ hasDb
    ELSE v.authReady /\ hasDb /\ v.userId # None /\ v.error = None

\* The submit button is enabled (its `disabled` attribute is false).
SubmitEnabled(v) ==
    ~(v.isSubmitting \/ ~v.authReady \/ v.userId = None \/ cfg = "fallback")

Live == phase = "mounted"

(***************************************************************************)
(* Initial state: the component is constructed (useState defaults), no     *)
(* effect has run yet.  The environment fixes the configuration, whether   *)
(* a token was supplied, and whether the auth service still holds a user   *)
(* persisted by an earlier visit.                                          *)
(***************************************************************************)
Configs(a) ==
    IF a = "client" THEN {"missing", "real"} ELSE {"invalid", "fallback", "real"}

Init ==
    /\ app \in {"client", "admin"}
    /\ cfg \in Configs(app)
    /\ token \in BOOLEAN
    /\ phase = "created"
    /\ db = FALSE
    /\ items = <<>>
    /\ delivered = Absent
    /\ loading = TRUE
    /\ error = None
    /\ errorSeen = FALSE
    /\ authReady = FALSE
    /\ userId = None
    /\ newProduct = DefaultProduct
    /\ isSubmitting = FALSE
    /\ view = Captured
    /\ authUser \in (IF cfg = "real" THEN {None, "u1"} ELSE {None})
    /\ authListener = FALSE
    /\ authQ = <<>>
    /\ signInPending = 0
    /\ signIns = 0
    /\ resumePending = 0
    /\ sub = "closed"
    /\ opened = FALSE
    /\ writesInFlight = 0

static == <<app, cfg, token>>
shown == <<items, delivered>>
form == <<newProduct, isSubmitting>>
writes == writesInFlight

(***************************************************************************)
(* Customer app, mount: the first effect (initFirebase up to its first     *)
(* await), then the second effect with the closure of the first render.    *)
(***************************************************************************)
ClientMount ==
    /\ app = "client" /\ phase = "created"
    /\ phase' = "mounted"
    /\ IF cfg = "missing"
       THEN \* throw new Error(...) -> catch
            /\ error' = "init"
            /\ loading' = FALSE
            /\ authReady' = TRUE
            /\ UNCHANGED <<db, authListener, authQ, signInPending, signIns>>
       ELSE /\ db' = TRUE
            /\ authListener' = TRUE
            /\ authQ' = <<authUser>>          \* the observer's initial event
            /\ signInPending' = 1             \* token or anonymous sign-in
            /\ signIns' = signIns + 1
            /\ UNCHANGED <<error, loading, authReady>>
    /\ sub' = IF EffectOpens(view, db') THEN "open" ELSE "closed"
    /\ opened' = EffectOpens(view, db')
    /\ UNCHANGED <<static, shown, userId, form, view, authUser, resumePending,
                   writes>>
    /\ errorSeen' = (errorSeen \/ error' # None)

(***************************************************************************)
(* Admin app, mount: the first effect, then the second.                    *)
(***************************************************************************)
AdminMount ==
    /\ app = "admin" /\ phase = "created"
    /\ phase' = "mounted"
    /\ IF cfg = "invalid"
       THEN \* !firebaseConfig.projectId
            /\ error' = "init"
            /\ authReady' = TRUE
            /\ UNCHANGED <<db, authListener, authQ>>
       ELSE /\ db' = TRUE
            /\ authListener' = TRUE
            /\ authQ' = <<authUser>>
            /\ UNCHANGED <<error, authReady>>
    /\ sub' = IF EffectOpens(view, db') THEN "open" ELSE "closed"
    /\ opened' = EffectOpens(view, db')
    /\ UNCHANGED <<static, shown, loading, userId, form, view, authUser,
                   signInPending, resumePending, writes>>
    /\ UNCHANGED signIns
    /\ errorSeen' = (errorSeen \/ error' # None)

(***************************************************************************)
(* onAuthStateChanged observer.                                            *)
(***************************************************************************)
ClientAuthCallback ==
    /\ app = "client" /\ Live /\ authListener /\ authQ # <<>>
    /\ userId' = Head(authQ)
    /\ authReady' = TRUE
    /\ authQ' = Tail(authQ)
    /\ opened' = FALSE
    /\ UNCHANGED <<static, phase, db, shown, loading, error, form, view,
                   authUser, authListener, signInPending, resumePending, sub, writes>>
    /\ UNCHANGED signIns
    /\ errorSeen' = (errorSeen \/ error' # None)

\* With a user: set the identity and readiness.  Without: start a sign-in and
\* suspend at the await; readiness is set when the callback resumes.
AdminAuthCallback ==
    /\ app = "admin" /\ Live /\ authListener /\ authQ # <<>>
    /\ authQ' = Tail(authQ)
    /\ opened' = FALSE
    /\ IF Head(authQ) # None
       THEN /\ userId' = Head(authQ)
            /\ authReady' = TRUE
            /\ UNCHANGED <<signInPending, signIns>>
       ELSE /\ signInPending' = signInPending + 1
            /\ signIns' = signIns + 1
            /\ UNCHANGED <<userId, authReady>>
    /\ UNCHANGED <<static, phase, db, shown, loading, error, form, view,
                   authUser, authListener, resumePending, sub, writes>>
    /\ errorSeen' = (errorSeen \/ error' # None)

(***************************************************************************)
(* Identity service.                                                       *)
(***************************************************************************)
\* The user a fulfilled sign-in yields: an anonymous sign-in keeps a user who
\* is already signed in; otherwise the service names the user.
SignInUsers ==
    IF ~token /\ authUser # None THEN {authUser} ELSE Uids

Notify(u) == IF authListener /\ u # authUser THEN Append(authQ, u) ELSE authQ

\* A sign-in call is fulfilled.  The mock configuration cannot sign in.
SignInFulfil ==
    /\ signInPending > 0 /\ cfg = "real"
    /\ \E u \in SignInUsers :
        /\ authUser' = u
        /\ authQ' = Notify(u)
    /\ signInPending' = signInPending - 1
    /\ resumePending' = IF app = "admin" THEN resumePending + 1 ELSE resumePending
    /\ opened' = FALSE
    /\ UNCHANGED <<static, phase, db, shown, loading, error, authReady, userId,
                   form, view, authListener, sub, writes>>
    /\ UNCHANGED signIns
    /\ errorSeen' = (errorSeen \/ error' # None)

\* Admin: the callback resumes after a fulfilled await.
AdminResume ==
    /\ app = "admin" /\ resumePending > 0
    /\ resumePending' = resumePending - 1
    /\ authReady' = IF Live THEN TRUE ELSE authReady
    /\ opened' = FALSE
    /\ UNCHANGED <<static, phase, db, shown, loading, error, userId, form, view,
                   authUser, authListener, authQ, signInPending, sub, writes>>
    /\ UNCHANGED signIns
    /\ errorSeen' = (errorSeen \/ error' # None)

\* Faulty variant of the rejection: the admin app fails like the customer
\* app instead of substituting an identity.
SignInReject_AdminFatal ==
    /\ signInPending > 0
    /\ signInPending' = signInPending - 1
    /\ opened' = FALSE
    /\ IF ~Live
       THEN UNCHANGED <<error, loading, authReady, userId>>
       ELSE /\ error' = "init"
            /\ loading' = FALSE
            /\ authReady' = TRUE
            /\ UNCHANGED userId
    /\ UNCHANGED <<static, phase, db, shown, form, view, authUser, authListener,
                   authQ, resumePending, sub, writes>>
    /\ UNCHANGED signIns
    /\ errorSeen' = (errorSeen \/ error' # None)

\* A sign-in call is rejected: the customer app's catch block, or the admin
\* callback's catch block followed by the rest of the callback.
SignInReject ==
    /\ signInPending > 0
    /\ signInPending' = signInPending - 1
    /\ opened' = FALSE
    /\ IF ~Live
       THEN UNCHANGED <<error, loading, authReady, userId>>
       ELSE IF app = "client"
       THEN /\ error' = "init"
            /\ loading' = FALSE
            /\ authReady' = TRUE
            /\ UNCHANGED userId
       ELSE /\ userId' = MockUid
            /\ authReady' = TRUE
            /\ UNCHANGED <<error, loading>>
    /\ UNCHANGED <<static, phase, db, shown, form, view, authUser, authListener,
                   authQ, resumePending, sub, writes>>
    /\ UNCHANGED signIns
    /\ errorSeen' = (errorSeen \/ error' # None)

\* The identity service signs the user out (revoked or deleted account,
\* sign-out in another tab).
SignOut ==
    /\ Live /\ authUser # None
    /\ Len(authQ) + signInPending + resumePending < MaxAuthEvents
    /\ signIns < MaxSignIns
    /\ authUser' = None
    /\ authQ' = Notify(None)
    /\ opened' = FALSE
    /\ UNCHANGED <<static, phase, db, shown, loading, error, authReady, userId,
                   form, view, authListener, signInPending, resumePending, sub, writes>>
    /\ UNCHANGED signIns
    /\ errorSeen' = (errorSeen \/ error' # None)

(***************************************************************************)
(* Render: React commits the pending state, the new closures capture it,   *)
(* and the collection-listener effect re-runs when a dependency changed:   *)
(* first the cleanup of its previous run, then its body.                   *)
(***************************************************************************)
Render ==
    /\ Live /\ view # Captured
    /\ view' = Captured
    /\ IF Deps(Captured) # Deps(view)
       THEN /\ sub' = IF EffectOpens(Captured, db) THEN "open" ELSE "closed"
            /\ opened' = EffectOpens(Captured, db)
       ELSE /\ sub' = sub
            /\ opened' = FALSE
    /\ UNCHANGED <<static, phase, db, shown, loading, error, authReady, userId,
                   form, authUser, authListener, authQ, signInPending,
                   resumePending, writes>>
    /\ UNCHANGED signIns
    /\ errorSeen' = (errorSeen \/ error' # None)

(***************************************************************************)
(* Collection listener callbacks.                                          *)
(***************************************************************************)
\* Success callback: full replacement by the sorted snapshot.  (The admin
\* callback's try/catch only triggers on a createdAt that is not a timestamp,
\* which the products written by this application never carry.)
OnSnapshot(docs) ==
    /\ Live /\ sub = "open"
    /\ items' = Sort(app, docs)
    /\ delivered' = Some(docs)
    /\ loading' = FALSE
    /\ opened' = FALSE
    /\ UNCHANGED <<static, phase, db, error, authReady, userId, form, view,
                   authUser, authListener, authQ, signInPending, resumePending, sub, writes>>
    /\ UNCHANGED signIns
    /\ errorSeen' = (errorSeen \/ error' # None)

\* Error callback: the listener is dead afterwards (no further events).
OnSnapshotError ==
    /\ Live /\ sub = "open"
    /\ sub' = "failed"
    /\ error' = "fetch"
    /\ loading' = FALSE
    /\ opened' = FALSE
    /\ UNCHANGED <<static, phase, db, shown, authReady, userId, form, view,
                   authUser, authListener, authQ, signInPending, resumePending, writes>>
    /\ UNCHANGED signIns
    /\ errorSeen' = (errorSeen \/ error' # None)

(***************************************************************************)
(* Admin form handlers.  They read the closure of the last render (view);  *)
(* functional updates (prev => ...) apply to the pending state.            *)
(***************************************************************************)
SetField(p, field, value) ==
    [p EXCEPT ![field] = IF field = "price" THEN ParsePrice(value) ELSE value]

FieldInputs(field) ==
    CASE field = "name" -> NameInputs
      [] field = "description" -> DescriptionInputs
      [] field = "price" -> PriceInputs
      [] field = "category" -> categories

\* A change event of a form input.  The form is on screen only while the last
\* render saw no error; the input is controlled, so React re-renders it with
\* the new draft before the next event is handled.
handleInputChange(field, value) ==
    /\ app = "admin" /\ Live
    /\ view.error = None /\ view.newProduct = newProduct
    /\ newProduct' = SetField(newProduct, field, value)
    /\ view' = [view EXCEPT !.newProduct = newProduct']
    /\ opened' = FALSE
    /\ UNCHANGED <<static, phase, db, shown, loading, error, authReady, userId,
                   isSubmitting, authUser, authListener, authQ,
                   signInPending, resumePending, sub, writes>>
    /\ UNCHANGED signIns
    /\ errorSeen' = (errorSeen \/ error' # None)

\* Faulty variant of the first guard: the submitting flag is not tested.
SubmitBlocked_NoSubmittingTest(v) ==
    \/ ~db \/ v.userId = None \/ ~v.authReady
    \/ v.error # None \/ cfg = "fallback"

\* Faulty variant of the first guard: the mock configuration is not tested.
SubmitBlocked_NoFallbackTest(v) ==
    \/ v.isSubmitting \/ ~db \/ v.userId = None \/ ~v.authReady
    \/ v.error # None

\* First guard of handleSubmit.
SubmitBlocked(v) ==
    \/ v.isSubmitting \/ ~db \/ v.userId = None \/ ~v.authReady
    \/ v.error # None \/ cfg = "fallback"

\* Faulty variant of the validation: a price of 0 passes.
DraftInvalid_ZeroPasses(p) == p.name = "" \/ p.price < 0

\* Validation of the draft.
DraftInvalid(p) == p.name = "" \/ p.price <= 0

\* handleSubmit up to its await: either a guard returns, or addDoc is called.
handleSubmit ==
    /\ app = "admin" /\ Live /\ writesInFlight < MaxWrites
    /\ opened' = FALSE
    /\ IF SubmitBlocked(view)
       THEN /\ error' = IF cfg = "fallback" THEN "denied" ELSE error
            /\ UNCHANGED <<isSubmitting, writes>>
       ELSE IF DraftInvalid(view.newProduct)
       THEN /\ error' = "validation"
            /\ UNCHANGED <<isSubmitting, writes>>
       ELSE /\ error' = None
            /\ isSubmitting' = TRUE
            /\ writesInFlight' = writesInFlight + 1
    /\ UNCHANGED <<static, phase, db, shown, loading, authReady, userId,
                   newProduct, view, authUser, authListener, authQ,
                   signInPending, resumePending, sub>>
    /\ UNCHANGED signIns
    /\ errorSeen' = (errorSeen \/ error' # None)

\* Faulty variant of the success path: the reset leaves the description.
AddDocFulfil_KeepsDescription ==
    /\ writesInFlight > 0
    /\ writesInFlight' = writesInFlight - 1
    /\ newProduct' = IF Live
                     THEN [DefaultProduct EXCEPT
                              !.description = newProduct.description]
                     ELSE newProduct
    /\ isSubmitting' = IF Live THEN FALSE ELSE isSubmitting
    /\ opened' = FALSE
    /\ UNCHANGED <<static, phase, db, shown, loading, error, authReady, userId,
                   view, authUser, authListener, authQ, signInPending,
                   resumePending, sub>>
    /\ UNCHANGED signIns
    /\ errorSeen' = (errorSeen \/ error' # None)

\* Faulty variant of the success path: the created product is also appended
\* to the local list.
AddDocFulfil_AppendsLocally ==
    /\ writesInFlight > 0
    /\ writesInFlight' = writesInFlight - 1
    /\ newProduct' = IF Live THEN DefaultProduct ELSE newProduct
    /\ isSubmitting' = IF Live THEN FALSE ELSE isSubmitting
    /\ items' = IF Live THEN Append(items, SampleDoc(app)) ELSE items
    /\ opened' = FALSE
    /\ UNCHANGED <<static, phase, db, delivered, loading, error, authReady,
                   userId, view, authUser, authListener, authQ, signInPending,
                   signIns, resumePending, sub>>
    /\ errorSeen' = (errorSeen \/ error' # None)

\* addDoc fulfilled: the rest of the try block, then finally.
AddDocFulfil ==
    /\ writesInFlight > 0
    /\ writesInFlight' = writesInFlight - 1
    /\ newProduct' = IF Live THEN DefaultProduct ELSE newProduct
    /\ isSubmitting' = IF Live THEN FALSE ELSE isSubmitting
    /\ opened' = FALSE
    /\ UNCHANGED <<static, phase, db, shown, loading, error, authReady, userId,
                   view, authUser, authListener, authQ, signInPending,
                   resumePending, sub>>
    /\ UNCHANGED signIns
    /\ errorSeen' = (errorSeen \/ error' # None)

\* Faulty variant of the failure path: the draft is reset as on success.
AddDocReject_ResetsDraft ==
    /\ writesInFlight > 0
    /\ writesInFlight' = writesInFlight - 1
    /\ error' = IF Live THEN "write" ELSE error
    /\ newProduct' = IF Live THEN DefaultProduct ELSE newProduct
    /\ isSubmitting' = IF Live THEN FALSE ELSE isSubmitting
    /\ opened' = FALSE
    /\ UNCHANGED <<static, phase, db, shown, loading, authReady, userId,
                   view, authUser, authListener, authQ, signInPending,
                   signIns, resumePending, sub>>
    /\ errorSeen' = (errorSeen \/ error' # None)

\* addDoc rejected: catch, then finally.
AddDocReject ==
    /\ writesInFlight > 0
    /\ writesInFlight' = writesInFlight - 1
    /\ error' = IF Live THEN "write" ELSE error
    /\ isSubmitting' = IF Live THEN FALSE ELSE isSubmitting
    /\ opened' = FALSE
    /\ UNCHANGED <<static, phase, db, shown, loading, authReady, userId,
                   newProduct, view, authUser, authListener, authQ,
                   signInPending, resumePending, sub>>
    /\ UNCHANGED signIns
    /\ errorSeen' = (errorSeen \/ error' # None)

(***************************************************************************)
(* Unmount: the cleanups of both effects run.                              *)
(***************************************************************************)
\* Faulty variant of the unmount: the first effect returns no cleanup, so the
\* identity observer stays registered.
Unmount_KeepsAuthListener ==
    /\ Live
    /\ phase' = "unmounted"
    /\ sub' = "closed"
    /\ opened' = FALSE
    /\ UNCHANGED <<static, db, shown, loading, error, authReady, userId, form,
                   view, authUser, authListener, authQ, signInPending,
                   signIns, resumePending, writes>>
    /\ errorSeen' = (errorSeen \/ error' # None)

Unmount ==
    /\ Live
    /\ phase' = "unmounted"
    /\ authListener' = FALSE
    /\ authQ' = <<>>
    /\ sub' = "closed"
    /\ opened' = FALSE
    /\ UNCHANGED <<static, db, shown, loading, error, authReady, userId, form,
                   view, authUser, signInPending, resumePending, writes>>
    /\ UNCHANGED signIns
    /\ errorSeen' = (errorSeen \/ error' # None)

Fields == {"name", "description", "price", "category"}

\* Bootstrap of the session and the collection listener.
Bootstrap ==
    \/ ClientMount
    \/ AdminMount
    \/ ClientAuthCallback
    \/ AdminAuthCallback
    \/ SignInFulfil
    \/ AdminResume
    \/ SignInReject
    \/ Render
    \/ OnSnapshotError

\* The admin form.
Form ==
    \/ \E field \in Fields : \E value \in FieldInputs(field) :
          handleInputChange(field, value)
    \/ handleSubmit
    \/ AddDocFulfil
    \/ AddDocReject

\* Both apps with the admin form; the collection is empty or holds one
\* document.
Next ==
    \/ Bootstrap
    \/ SignOut
    \/ Unmount
    \/ \E docs \in SampleSnapshots(app) : OnSnapshot(docs)
    \/ Form

Spec == Init /\ [][Next]_vars

\* Both apps with every snapshot of up to MaxDocs documents; the admin form
\* is left untouched and the session is not signed out or unmounted.
NextLists ==
    \/ Bootstrap
    \/ \E docs \in Snapshots(app) : OnSnapshot(docs)

SpecLists == Init /\ [][NextLists]_vars

\* The sequence s without its i-th element.
Without(s, i) == SubSeq(s, 1, i - 1) \o SubSeq(s, i + 1, Len(s))

RECURSIVE Shuffles(_)
\* Every order in which the documents of s can be listed.
Shuffles(s) ==
    IF s = <<>> THEN {<<>>}
    ELSE UNION {{<<s[i]>> \o u : u \in Shuffles(Without(s, i))} :
                   i \in 1..Len(s)}

\* The snapshots as the success callback takes them: it iterates over the
\* documents in whatever order the snapshot lists them and relies on its own
\* sort, so every order of every snapshot is an input of the callback.
Orderings(a) == UNION {Shuffles(s) : s \in Snapshots(a)}

\* Both apps with every snapshot of up to MaxDocs documents in every order.
NextOrders ==
    \/ Bootstrap
    \/ \E docs \in Orderings(app) : OnSnapshot(docs)

SpecOrders == Init /\ [][NextOrders]_vars

(***************************************************************************)
(* Properties.                                                             *)
(***************************************************************************)

\* C1: in both apps the collection subscription is never opened, and is never
\* open, in a state where the readiness flag is false.
C1_SubscribeOnlyWhenReady ==
    /\ opened => authReady
    /\ sub = "open" => authReady

\* A render has just opened the subscription of a ready app.
C1_Witness == opened /\ authReady /\ sub = "open"

\* Words in dictionary order, stated without the comparator: a is a prefix of
\* b, or the first letter in which they differ is smaller in a.
WordLeq(a, b) ==
    \E k \in 0..Len(a) :
        /\ k <= Len(b)
        /\ \A i \in 1..k : a[i] = b[i]
        /\ \/ k = Len(a)
           \/ k < Len(b) /\ a[k + 1] < b[k + 1]

\* The sort key of a document: a missing name is the empty word, a missing
\* createdAt is 0.
NameKey(d) == IF d.name = {} THEN <<>> ELSE CHOOSE n \in d.name : TRUE
TimeKey(d) == IF d.createdAt = {} THEN 0 ELSE CHOOSE m \in d.createdAt : TRUE

\* Stores ascending by name, products descending by createdAt.
InOrder(x, y) ==
    IF app = "client" THEN WordLeq(NameKey(x), NameKey(y))
    ELSE TimeKey(x) >= TimeKey(y)

IsSorted(s) == \A i, j \in 1..Len(s) : i < j => InOrder(s[i], s[j])

\* s and t hold exactly the same documents (ids are unique in a snapshot).
SameDocs(s, t) ==
    /\ Len(s) = Len(t)
    /\ {s[i] : i \in 1..Len(s)} = {t[i] : i \in 1..Len(t)}

\* C2: once a snapshot has been delivered the list holds exactly the documents
\* of the snapshot delivered last, in the order of the app's comparator, and
\* the loading flag is false; before the first snapshot the list is empty.
C2_FullReplaceSorted ==
    IF delivered = Absent
    THEN items = <<>>
    ELSE /\ \A docs \in delivered : SameDocs(items, docs)
         /\ IsSorted(items)
         /\ ~loading

\* A list of two documents that the snapshot delivered in the other order.
C2_Witness ==
    /\ Len(items) = 2 /\ ~loading
    /\ items[1].id > items[2].id
    /\ ~InOrder(items[2], items[1])

\* C3: an invocation of handleSubmit whose draft has an empty name or a
\* price of 0 or less issues no create-document call.
C3_InvalidDraftNoWrite ==
    [][ (handleSubmit /\ (view.newProduct.name = "" \/ view.newProduct.price <= 0))
            => writesInFlight' = writesInFlight ]_vars

\* handleSubmit has rejected a draft with a name and a price of 0 or less.
C3_Witness ==
    /\ error = "validation" /\ writesInFlight = 0
    /\ view.newProduct.name # "" /\ view.newProduct.price <= 0

\* The state handleSubmit is invoked in, as C4 describes it: rendered, ready,
\* with an identity, without error, on a real configuration, nothing being
\* submitted, and a valid draft.
C4_Ready ==
    /\ view = Captured
    /\ authReady /\ userId # None /\ error = None /\ cfg = "real"
    /\ ~isSubmitting
    /\ newProduct.name # "" /\ newProduct.price > 0

\* C4: one invocation of handleSubmit in such a state issues exactly one
\* create-document call, and when a call succeeds the draft is afterwards the
\* empty defaults.
C4_ValidSubmitOnceAndReset ==
    [][ /\ (handleSubmit /\ C4_Ready) => writesInFlight' = writesInFlight + 1
        /\ (AddDocFulfil /\ Live) =>
              newProduct' = [name |-> "", description |-> "", price |-> 0,
                             category |-> "Main Dish"]
      ]_vars

\* A submitted draft with a description has just been reset by the success of
\* its call: the last render still shows it being submitted.
C4_Witness ==
    /\ view.isSubmitting /\ ~isSubmitting /\ writesInFlight = 0
    /\ view.newProduct.name = "Roll" /\ view.newProduct.description = "Spicy"
    /\ newProduct = DefaultProduct /\ error = None

\* C6: on the fallback configuration the submit button is disabled in every
\* state and no create-document call is ever issued.
C6_FallbackReadOnly ==
    cfg = "fallback" => (~SubmitEnabled(view) /\ writesInFlight = 0)

\* On the fallback configuration handleSubmit was invoked on a valid draft by
\* a ready app with an identity, and denied the write.
C6_Witness ==
    /\ cfg = "fallback" /\ error = "denied"
    /\ view.authReady /\ view.userId # None /\ ~view.isSubmitting
    /\ view.newProduct.name # "" /\ view.newProduct.price > 0

\* C5: when the error callback of the subscription fires the app is in the
\* error state with the loading flag false, and that is final: the error set
\* by the callback is never cleared, so the list is not rendered again.
C5_SubscriptionErrorFinal ==
    [][ /\ OnSnapshotError => (error' # None /\ ~loading')
        /\ error = "fetch" => error' # None
      ]_vars

\* C7: in the customer app, once the bootstrap has failed (error "init": the
\* configuration is missing or the sign-in was rejected) the collection
\* subscription is not open and is not opened.
C7_NoLoadingAfterBootstrapFailure ==
    (app = "client" /\ error = "init") => (sub = "closed" /\ ~opened)

\* C8: in the admin app no create-document call is issued by a handleSubmit
\* whose identity is the placeholder substituted after a rejected sign-in.
C8_PlaceholderIsReadOnly ==
    [][ (app = "admin" /\ view.userId = MockUid)
            => writesInFlight' <= writesInFlight ]_vars

\* C9: in the admin app a rejected sign-in leaves the app with the placeholder
\* identity, ready, and its error state as it was (absent if it was absent);
\* the render that first shows the placeholder identity without error opens
\* the collection subscription.  In the customer app a rejected sign-in puts
\* the app in the error state.
C9_AuthFailureDegradesAdminOnly ==
    [][ /\ (SignInReject /\ Live /\ app = "admin")
              => (userId' = MockUid /\ authReady' /\ error' = error)
        /\ (Render /\ app = "admin" /\ userId = MockUid /\ error = None
                   /\ view.userId # MockUid)
              => (opened' /\ sub' = "open")
        /\ (SignInReject /\ Live /\ app = "client") => error' # None
      ]_vars

\* The admin app after a rejected sign-in: placeholder identity, no error, and
\* the subscription just opened.
C9_Witness ==
    /\ app = "admin" /\ userId = MockUid /\ authReady /\ error = None
    /\ opened /\ sub = "open" /\ signInPending = 0 /\ authUser = None

\* C10: the readiness flag never returns to false, and in the step that makes
\* it true an identity has been obtained (by the app or by the identity
\* service) or the bootstrap has already failed.
C10_ReadyOnceAfterAuth ==
    [][ /\ authReady => authReady'
        /\ (~authReady /\ authReady')
              => (userId' # None \/ authUser' # None \/ error' = "init")
      ]_vars

\* C11: on a start with a usable configuration (the Firestore handle exists)
\* exactly one sign-in call is made over the run: never more than one, and
\* one has been made by the time the app is ready.
C11_ExactlyOneAuthAction ==
    db => (signIns <= 1 /\ (authReady => signIns = 1))

\* C12: in both apps, a step that opens the collection subscription leaves
\* the app with an identity (real or placeholder): no subscription is opened
\* while the identity is absent.
C12_IdentityWhenSubscribing == opened => userId # None

\* C13: while a subscription is open, a step opens a subscription again (the
\* effect closes the open one and subscribes anew) only if it is the step in
\* which the rendered readiness flag turns from false to true: a change of
\* identity or of error alone never does.
C13_ResubscribeOnlyOnReadiness ==
    [][ (sub = "open" /\ opened') => (~view.authReady /\ view'.authReady) ]_vars

\* C14: in both apps, after the unmount the identity observer is deregistered
\* and the collection subscription is cancelled, whatever happened before.
C14_UnmountReleasesListeners ==
    phase = "unmounted" => (~authListener /\ sub = "closed")

\* Unmounted after the observer was registered and the subscription, once
\* open, had failed.
C14_Witness ==
    /\ phase = "unmounted" /\ db /\ error = "fetch"
    /\ ~authListener /\ sub = "closed"

\* C15 (as claimed): at most one create-document call is in flight in every
\* state, and while one is in flight the rendered submit button is disabled.
C15_SingleWriteInFlight ==
    /\ writesInFlight <= 1
    /\ (writesInFlight > 0 /\ view = Captured) => ~SubmitEnabled(view)

\* C15 (amended): once the component has rendered with the submitting flag
\* set, the submit button is disabled and a handleSubmit invoked on that
\* render issues no create-document call.
C15_RenderedFlagBlocksSubmit ==
    [][ /\ view.isSubmitting => ~SubmitEnabled(view)
        /\ (handleSubmit /\ view.isSubmitting)
              => writesInFlight' = writesInFlight
      ]_vars

\* A call is in flight and the component has rendered the submitting flag
\* over a draft and a session that would otherwise pass both guards.
C15_Witness ==
    /\ app = "admin" /\ phase = "mounted" /\ cfg = "real"
    /\ writesInFlight = 1 /\ isSubmitting /\ view.isSubmitting
    /\ view.authReady /\ view.userId # None /\ view.error = None
    /\ view.newProduct.name # "" /\ view.newProduct.price > 0

\* C16: when a create-document call fails in the mounted admin app, the
\* draft is what it was before the failure, the error is set and the
\* submitting flag is false.
C16_DraftKeptOnWriteFailure ==
    [][ (AddDocReject /\ phase = "mounted")
            => (newProduct' = newProduct /\ error' # None /\ ~isSubmitting')
      ]_vars

\* The only call in flight has failed: the write error is set over the
\* submitted draft, which the last render still shows being submitted.
C16_Witness ==
    /\ error = "write" /\ ~isSubmitting /\ writesInFlight = 0
    /\ view.isSubmitting /\ view.newProduct = newProduct
    /\ newProduct.name = "Roll" /\ newProduct.description = "Spicy"
    /\ newProduct.price = 5

\* C17: in the mounted admin app, in a state left by a validation error or a
\* write error and rendered, with a real configuration, a ready session with
\* an identity, nothing being submitted and a valid draft, handleSubmit
\* issues a create-document call.
C17_ErrorsAreRecoverable ==
    ( /\ app = "admin" /\ phase = "mounted" /\ cfg = "real"
      /\ error \in {"validation", "write"} /\ view = Captured
      /\ authReady /\ userId # "none" /\ ~isSubmitting
      /\ writesInFlight = 0
      /\ newProduct.name # "" /\ newProduct.price > 0 )
        => ENABLED (handleSubmit /\ writesInFlight' = writesInFlight + 1)

\* C19: in the admin app the handlers of the form and the settling of a
\* create-document call leave the product list unchanged; the list changes
\* only in a step in which the open subscription delivers a snapshot.
C19_ListChangedOnlyBySnapshots ==
    [][ /\ ( \/ handleSubmit \/ AddDocFulfil \/ AddDocReject
             \/ \E field \in Fields : \E value \in FieldInputs(field) :
                    handleInputChange(field, value) )
              => items' = items
        /\ (app = "admin" /\ items' # items)
              => (sub = "open" /\ delivered' = {items'})
      ]_vars

\* A product was created (the draft was reset by the success of its call)
\* while the list still shows the empty snapshot delivered before.
C19_Witness ==
    /\ app = "admin" /\ delivered = {<<>>} /\ items = <<>>
    /\ view.isSubmitting /\ ~isSubmitting /\ writesInFlight = 0
    /\ view.newProduct.name = "Roll" /\ newProduct.name = ""
    /\ error = "none"

\* C20: in both apps, once the error is set no later step sets it back to
\* null.
C20_ErrorAbsorbing ==
    [][ error # "none" => error' # "none" ]_vars

====
